---- MODULE Spec2Model ----
(***************************************************************************)
(* Model of the collector's fingerprinting core: the Hasher of             *)
(* src/src/hash.rs, the entity constructors of src/src/lib.rs and the      *)
(* request handlers of src/src/api.rs.                                     *)
(*                                                                         *)
(* A u64 is a sequence of 8 bytes, least significant byte first, so that   *)
(* the 64-bit arithmetic of the hash is exact.  A byte string (&[u8],      *)
(* String) is a sequence of bytes.  An i64 identifier is kept as its       *)
(* 64-bit pattern (`as i64` and `as u64` do not change the bits).          *)
(***************************************************************************)
EXTENDS Integers, Sequences, FiniteSets, TLC

VARIABLES
    target_endian,  \* byte order of the build target ("little" / "big")
    hasher,         \* the Hasher under test: [state, calls], calls = chunks fed to write
    ops,            \* the API calls made on the hasher since Hasher::new()
    out,            \* Some(result of finalize) once finalized, None before
    call,           \* the last entity constructor / handler call: [fn, ...arguments]
    ret             \* what that call returned

hvars == <<hasher, ops, out>>
avars == <<call, ret>>
vars == <<target_endian, hasher, ops, out, call, ret>>

----------------------------------------------------------------------------
(* Option<T> *)

None == [some |-> FALSE]
Some(x) == [some |-> TRUE, val |-> x]
is_some(o) == o.some
unwrap(o) == o.val

----------------------------------------------------------------------------
(* 64-bit arithmetic on 8 little-endian byte limbs *)

Zero64 == <<0, 0, 0, 0, 0, 0, 0, 0>>

RECURSIVE XorBits(_, _)
XorBits(a, b) ==
    IF a = 0 THEN b
    ELSE IF b = 0 THEN a
    ELSE ((a + b) % 2) + 2 * XorBits(a \div 2, b \div 2)

\* XOR of two 4-bit values, tabulated
XorNibble == [a \in 0..15 |-> [b \in 0..15 |-> XorBits(a, b)]]

BitXor8(a, b) == 16 * XorNibble[a \div 16][b \div 16] + XorNibble[a % 16][b % 16]

bitxor(x, y) ==
    <<BitXor8(x[1], y[1]), BitXor8(x[2], y[2]), BitXor8(x[3], y[3]), BitXor8(x[4], y[4]),
      BitXor8(x[5], y[5]), BitXor8(x[6], y[6]), BitXor8(x[7], y[7]), BitXor8(x[8], y[8])>>

\* u64::rotate_left(n) for 0 < n < 8
rotate_left(x, n) ==
    LET up == 2 ^ n
        down == 2 ^ (8 - n)
    IN  <<((x[1] * up) % 256) + (x[8] \div down), ((x[2] * up) % 256) + (x[1] \div down),
          ((x[3] * up) % 256) + (x[2] \div down), ((x[4] * up) % 256) + (x[3] \div down),
          ((x[5] * up) % 256) + (x[4] \div down), ((x[6] * up) % 256) + (x[5] \div down),
          ((x[7] * up) % 256) + (x[6] \div down), ((x[8] * up) % 256) + (x[7] \div down)>>

\* u64::wrapping_mul: the low 64 bits of the product, by columns with carries
wrapping_mul(x, y) ==
    LET
        t1 == x[1] * y[1]
        t2 == x[1] * y[2] + x[2] * y[1] + (t1 \div 256)
        t3 == x[1] * y[3] + x[2] * y[2] + x[3] * y[1] + (t2 \div 256)
        t4 == x[1] * y[4] + x[2] * y[3] + x[3] * y[2] + x[4] * y[1] + (t3 \div 256)
        t5 == x[1] * y[5] + x[2] * y[4] + x[3] * y[3] + x[4] * y[2] + x[5] * y[1] + (t4 \div 256)
        t6 == x[1] * y[6] + x[2] * y[5] + x[3] * y[4] + x[4] * y[3] + x[5] * y[2] + x[6] * y[1] + (t5 \div 256)
        t7 == x[1] * y[7] + x[2] * y[6] + x[3] * y[5] + x[4] * y[4] + x[5] * y[3] + x[6] * y[2] + x[7] * y[1] + (t6 \div 256)
        t8 == x[1] * y[8] + x[2] * y[7] + x[3] * y[6] + x[4] * y[5] + x[5] * y[4] + x[6] * y[3] + x[7] * y[2] + x[8] * y[1] + (t7 \div 256)
    IN  <<t1 % 256, t2 % 256, t3 % 256, t4 % 256, t5 % 256, t6 % 256, t7 % 256, t8 % 256>>

RECURSIVE NatBytes(_, _)
NatBytes(n, k) == IF k = 0 THEN <<>> ELSE <<n % 256>> \o NatBytes(n \div 256, k - 1)

\* a natural number below 2^31 as a u64
U64(n) == NatBytes(n, 8)

\* `v as u64` for a signed v (i32 or i64): sign extension to 64 bits
as_u64(v) ==
    IF v >= 0 THEN U64(v)
    ELSE LET m == NatBytes(-(v + 1), 8) IN [i \in 1..8 |-> 255 - m[i]] \o <<>>

----------------------------------------------------------------------------
(* src/src/hash.rs *)

\* the constant the doc comment names, u64::MAX / PI = 5871781006564002452 (even)
C_as_documented == <<148, 10, 34, 39, 183, 193, 124, 81>>

\* 587178100656400245 = 0x0826135F1D836775
C == <<117, 103, 131, 29, 95, 19, 38, 8>>

Reverse(s) == [i \in 1..Len(s) |-> s[Len(s) + 1 - i]] \o <<>>

\* u64::from_ne_bytes of an 8-byte array
from_ne_bytes(bytes) == IF target_endian = "little" THEN bytes ELSE Reverse(bytes)

\* Vec::resize(n, v) of a vector no longer than n
resize(bytes, n, v) == bytes \o [i \in 1..(n - Len(bytes)) |-> v]

Hasher_new == [state |-> Zero64, calls |-> <<>>]

write(h, chunk) ==
    [state |-> wrapping_mul(bitxor(rotate_left(h.state, 5), chunk), C),
     calls |-> Append(h.calls, chunk)]

\* write_bytes looping while bytes.len() >= 8
RECURSIVE write_bytes_ge(_, _)
write_bytes_ge(h, bytes) ==
    IF Len(bytes) >= 8
    THEN write_bytes_ge(write(h, from_ne_bytes(SubSeq(bytes, 1, 8))),
                        SubSeq(bytes, 9, Len(bytes)))
    ELSE write(h, from_ne_bytes(resize(bytes, 8, 0)))

RECURSIVE write_bytes(_, _)
write_bytes(h, bytes) ==
    IF Len(bytes) > 8
    THEN write_bytes(write(h, from_ne_bytes(SubSeq(bytes, 1, 8))),
                     SubSeq(bytes, 9, Len(bytes)))
    ELSE write(h, from_ne_bytes(resize(bytes, 8, 0)))

finalize(h) == h.state

hash_bytes(bytes) == finalize(write_bytes(Hasher_new, bytes))

----------------------------------------------------------------------------
(* Strings of the entity layer, as bytes *)

\* "Europe/Zurich", "CH", "Mars/Phobos", "en", "Chrome", "Linux"
Europe_Zurich == <<69, 117, 114, 111, 112, 101, 47, 90, 117, 114, 105, 99, 104>>
CH == <<67, 72>>
Mars_Phobos == <<77, 97, 114, 115, 47, 80, 104, 111, 98, 111, 115>>
en == <<101, 110>>
Chrome == <<67, 104, 114, 111, 109, 101>>
Linux == <<76, 105, 110, 117, 120>>
\* "example.com", "EXAMPLE.com", "shop.example", "127.0.0.1"
example_com == <<101, 120, 97, 109, 112, 108, 101, 46, 99, 111, 109>>
EXAMPLE_com == <<69, 88, 65, 77, 80, 76, 69, 46, 99, 111, 109>>
shop_example == <<115, 104, 111, 112, 46, 101, 120, 97, 109, 112, 108, 101>>
ip_127_0_0_1 == <<49, 50, 55, 46, 48, 46, 48, 46, 49>>
\* "/p", "/other", "x", "y", "spring"
slash_p == <<47, 112>>
slash_other == <<47, 111, 116, 104, 101, 114>>
str_x == <<120>>
str_y == <<121>>
spring == <<115, 112, 114, 105, 110, 103>>
\* session strings: "42", "abc", "", "-7", "+5", "9223372036854775807",
\* "9223372036854775808"
session_42 == <<52, 50>>
session_abc == <<97, 98, 99>>
session_minus_7 == <<45, 55>>
session_plus_5 == <<43, 53>>
session_i64_max ==
    <<57, 50, 50, 51, 51, 55, 50, 48, 51, 54, 56, 53, 52, 55, 55, 53, 56, 48, 55>>
session_i64_max_plus_1 ==
    <<57, 50, 50, 51, 51, 55, 50, 48, 51, 54, 56, 53, 52, 55, 55, 53, 56, 48, 56>>

----------------------------------------------------------------------------
(* Library calls the code makes: Result, the url crate, str::parse,        *)
(* str::to_lowercase, the timezone table and the user-agent parser         *)

Ok(v) == [ok |-> TRUE, val |-> v]
Err(e) == [ok |-> FALSE, err |-> e]

\* enum Error { Missing(String), ParseIntError(std::num::ParseIntError) }
Error_Missing(what) == [kind |-> "Missing", arg |-> what]
Error_ParseIntError(e) == [kind |-> "ParseIntError", arg |-> e]

\* A parsed Url: host is None or Some([kind |-> "domain" | "ipv4", str |-> bytes]),
\* path is bytes, query is the sequence of decoded <<key, value>> pairs of
\* Url::query_pairs().
Url(host, path, query) == [host |-> host, path |-> path, query |-> query]
DomainHost(name) == Some([kind |-> "domain", str |-> name])
Ipv4Host(addr) == Some([kind |-> "ipv4", str |-> addr])

\* Url::domain(): the host if the URL has one and it is a domain name, not an IP address
Url_domain(url) ==
    IF is_some(url.host) /\ unwrap(url.host).kind = "domain"
    THEN Some(unwrap(url.host).str)
    ELSE None

Url_path(url) == url.path
Url_query_pairs(url) == url.query

\* the string as it is, not lower-cased
to_lowercase_identity(str) == str

\* str::to_lowercase on ASCII
to_lowercase(str) ==
    [i \in 1..Len(str) |-> IF str[i] >= 65 /\ str[i] <= 90 THEN str[i] + 32 ELSE str[i]]
        \o <<>>

IsDigit(b) == b >= 48 /\ b <= 57

RECURSIVE StripZeros(_)
StripZeros(digits) ==
    IF Len(digits) > 1 /\ digits[1] = 48 THEN StripZeros(Tail(digits)) ELSE digits

RECURSIVE LexLess(_, _, _)
LexLess(a, b, i) ==
    IF i > Len(a) THEN FALSE
    ELSE IF a[i] /= b[i] THEN a[i] < b[i]
    ELSE LexLess(a, b, i + 1)

\* whether the decimal number `digits` (no leading zeros), negated if neg, overflows i64
OverflowsI64(neg, digits) ==
    LET limit == IF neg THEN session_i64_max_plus_1 ELSE session_i64_max
    IN  \/ Len(digits) > Len(limit)
        \/ Len(digits) = Len(limit) /\ LexLess(limit, digits, 1)

\* str::parse::<i64>(): an optional sign, then one or more decimal digits, in range;
\* the error is the IntErrorKind.  An i64 is kept as [neg, digits]: its sign and its
\* decimal digits.
parse_i64(str) ==
    IF str = <<>> THEN Err("Empty")
    ELSE LET signed == str[1] = 43 \/ str[1] = 45
             neg == str[1] = 45
             digits == IF signed THEN Tail(str) ELSE str
         IN  IF digits = <<>> \/ \E i \in 1..Len(digits) : ~IsDigit(digits[i])
             THEN Err("InvalidDigit")
             ELSE LET d == StripZeros(digits)
                  IN  IF OverflowsI64(neg, d)
                      THEN Err(IF neg THEN "NegOverflow" ELSE "PosOverflow")
                      ELSE Ok([neg |-> neg /\ d /= <<48>>, digits |-> d])

\* `body.session.parse()?` with #[from] ParseIntError
parse_session(str) ==
    LET r == parse_i64(str) IN IF r.ok THEN r ELSE Err(Error_ParseIntError(r.err))

\* TIMEZONES.get(tz): the build-time table of IANA zone -> region code
TIMEZONES_get(tz) == IF tz = Europe_Zurich THEN Some(CH) ELSE None

\* user-agent header strings, named by what they are
UserAgents == {"chrome_on_linux", "unknown", "chrome_on_unknown", "unknown_on_linux"}

\* UA_PARSER.parse(user_agent): the browser and OS families, "" when unknown
UA_PARSER_parse(user_agent) ==
    [user_agent |-> [family |-> IF user_agent \in {"chrome_on_linux", "chrome_on_unknown"}
                                THEN Chrome ELSE <<>>],
     os |-> [family |-> IF user_agent \in {"chrome_on_linux", "unknown_on_linux"}
                        THEN Linux ELSE <<>>]]

\* Utc::now()
Utc_now == "now"

----------------------------------------------------------------------------
(* src/src/lib.rs *)

\* Visitor { project, region, timezone, language, width, height, ..Default }, then
\* browser and platform from the user agent
Visitor_fields(project_id, visitor, user_agent) ==
    LET ua == UA_PARSER_parse(user_agent)
        browser == ua.user_agent.family
        platform == ua.os.family
    IN  [id |-> Zero64,
         project |-> project_id,
         region |-> TIMEZONES_get(visitor.tz),
         timezone |-> visitor.tz,
         language |-> visitor.lang,
         browser |-> IF browser /= <<>> THEN Some(browser) ELSE None,
         platform |-> IF platform /= <<>> THEN Some(platform) ELSE None,
         width |-> visitor.screen[1],
         height |-> visitor.screen[2]]

\* an absent field hashed as an empty one instead of being skipped
write_some_placeholder(h, field) ==
    IF is_some(field) THEN write_bytes(h, unwrap(field)) ELSE write_bytes(h, <<>>)

\* write_bytes of an Option field: `if let Some(v) = &field { hasher.write_bytes(v) }`
write_some(h, field) == IF is_some(field) THEN write_bytes(h, unwrap(field)) ELSE h

Visitor_new(project_id, visitor, user_agent) ==
    LET val == Visitor_fields(project_id, visitor, user_agent)
        h1 == write(Hasher_new, as_u64(val.project))
        h2 == write_some(h1, val.region)
        h3 == write_bytes(h2, val.timezone)
        h4 == write_bytes(h3, val.language)
        h5 == write_some(h4, val.browser)
        h6 == write_some(h5, val.platform)
        h7 == write(h6, as_u64(val.width))
        h8 == write(h7, as_u64(val.height))
    IN  [val EXCEPT !.id = finalize(h8)]

Page_new(project_id, url) ==
    IF Url_domain(url) = None THEN Err(Error_Missing("domain"))
    ELSE LET domain == unwrap(Url_domain(url))
             path == Url_path(url)
             h1 == write(Hasher_new, as_u64(project_id))
             h2 == write_bytes(h1, domain)
             h3 == write_bytes(h2, path)
         IN  Ok([id |-> finalize(h3), project |-> project_id,
                 domain |-> domain, path |-> path])

UtmParam_default(project_id) ==
    [id |-> Zero64, project |-> project_id, campaign |-> None, content |-> None,
     medium |-> None, source |-> None, term |-> None]

\* the first occurrence of a key wins instead of the last
UtmParam_match_first_wins(acc, key, value) ==
    LET keep(field) == IF is_some(field) THEN field ELSE Some(value)
    IN  IF key = "campaign"
            THEN [val |-> [acc.val EXCEPT !.campaign = keep(@)], found_any |-> TRUE]
        ELSE IF key = "content"
            THEN [val |-> [acc.val EXCEPT !.content = keep(@)], found_any |-> TRUE]
        ELSE IF key = "medium"
            THEN [val |-> [acc.val EXCEPT !.medium = keep(@)], found_any |-> TRUE]
        ELSE IF key = "source"
            THEN [val |-> [acc.val EXCEPT !.source = keep(@)], found_any |-> TRUE]
        ELSE IF key = "term"
            THEN [val |-> [acc.val EXCEPT !.term = keep(@)], found_any |-> TRUE]
        ELSE acc

\* one iteration of `for (key, value) in url.query_pairs()`, on [val, found_any]
UtmParam_match(acc, key, value) ==
    IF key = "campaign"
        THEN [val |-> [acc.val EXCEPT !.campaign = Some(value)], found_any |-> TRUE]
    ELSE IF key = "content"
        THEN [val |-> [acc.val EXCEPT !.content = Some(value)], found_any |-> TRUE]
    ELSE IF key = "medium"
        THEN [val |-> [acc.val EXCEPT !.medium = Some(value)], found_any |-> TRUE]
    ELSE IF key = "source"
        THEN [val |-> [acc.val EXCEPT !.source = Some(value)], found_any |-> TRUE]
    ELSE IF key = "term"
        THEN [val |-> [acc.val EXCEPT !.term = Some(value)], found_any |-> TRUE]
    ELSE acc

RECURSIVE UtmParam_scan(_, _, _)
UtmParam_scan(acc, pairs, i) ==
    IF i > Len(pairs) THEN acc
    ELSE UtmParam_scan(UtmParam_match(acc, pairs[i][1], pairs[i][2]), pairs, i + 1)

\* UtmParam::new without the found_any check
UtmParam_new_always_some(project_id, url) ==
    LET scanned == UtmParam_scan([val |-> UtmParam_default(project_id), found_any |-> FALSE],
                                 Url_query_pairs(url), 1)
        val == scanned.val
        h0 == write(Hasher_new, as_u64(val.project))
        h1 == write_some(h0, val.campaign)
        h2 == write_some(h1, val.content)
        h3 == write_some(h2, val.medium)
        h4 == write_some(h3, val.source)
        h5 == write_some(h4, val.term)
    IN  Some([val EXCEPT !.id = finalize(h5)])

UtmParam_new(project_id, url) ==
    LET scanned == UtmParam_scan([val |-> UtmParam_default(project_id), found_any |-> FALSE],
                                 Url_query_pairs(url), 1)
        val == scanned.val
    IN  IF scanned.found_any
        THEN LET h0 == write(Hasher_new, as_u64(val.project))
                 h1 == write_some(h0, val.campaign)
                 h2 == write_some(h1, val.content)
                 h3 == write_some(h2, val.medium)
                 h4 == write_some(h3, val.source)
                 h5 == write_some(h4, val.term)
             IN  Some([val EXCEPT !.id = finalize(h5)])
        ELSE None

Referrer_new(project_id, referrer, host) ==
    IF referrer = None THEN None
    ELSE IF Url_domain(unwrap(referrer)) = None THEN None
    ELSE LET domain == to_lowercase(unwrap(Url_domain(unwrap(referrer))))
         IN  IF domain = to_lowercase(host) THEN None
             ELSE LET h1 == write(Hasher_new, as_u64(project_id))
                      h2 == write_bytes(h1, domain)
                  IN  Some([id |-> finalize(h2), project |-> project_id,
                            domain |-> domain])

Visit_new(project_id, session, visitor, page, utm_param, referrer) ==
    [time |-> Utc_now, project |-> project_id, session |-> session, visitor |-> visitor,
     page |-> page, utm_param |-> utm_param, referrer |-> referrer,
     duration |-> None, distance |-> None]

Event_new(project_id, session, visitor, page, name, data) ==
    [time |-> Utc_now, project |-> project_id, session |-> session, visitor |-> visitor,
     page |-> page, name |-> name, data |-> data]

----------------------------------------------------------------------------
(* src/src/api.rs *)

\* handle_visit building the page before parsing the session
handle_visit_page_first(project_id, body, user_agent) ==
    LET session == parse_session(body.session)
        visitor == Visitor_new(project_id, body.visitor, user_agent)
        page == Page_new(project_id, body.page.url)
        utm_param == UtmParam_new(project_id, body.page.url)
        referrer == Referrer_new(project_id, body.page.referrer, page.val.domain)
    IN  IF ~page.ok THEN page
        ELSE IF ~session.ok THEN session
        ELSE Ok(Visit_new(project_id, session.val, visitor, page.val, utm_param, referrer))

handle_visit(project_id, body, user_agent) ==
    LET session == parse_session(body.session)
        visitor == Visitor_new(project_id, body.visitor, user_agent)
        page == Page_new(project_id, body.page.url)
        utm_param == UtmParam_new(project_id, body.page.url)
        referrer == Referrer_new(project_id, body.page.referrer, page.val.domain)
    IN  IF ~session.ok THEN session
        ELSE IF ~page.ok THEN page
        ELSE Ok(Visit_new(project_id, session.val, visitor, page.val, utm_param, referrer))

handle_exit(project_id, body, user_agent) ==
    LET session == parse_session(body.session)
        visitor == Visitor_new(project_id, body.visitor, user_agent)
        page == Page_new(project_id, body.page.url)
        utm_param == UtmParam_new(project_id, body.page.url)
        referrer == Referrer_new(project_id, body.page.referrer, page.val.domain)
        visit == Visit_new(project_id, session.val, visitor, page.val, utm_param, referrer)
    IN  IF ~session.ok THEN session
        ELSE IF ~page.ok THEN page
        ELSE Ok([visit EXCEPT !.duration = Some(body.dur), !.distance = Some(body.dist)])

handle_event(project_id, body, user_agent) ==
    LET session == parse_session(body.session)
        visitor == Visitor_new(project_id, body.visitor, user_agent)
        page == Page_new(project_id, body.page.url)
    IN  IF ~session.ok THEN session
        ELSE IF ~page.ok THEN page
        ELSE Ok(Event_new(project_id, session.val, visitor, page.val, body.name, body.data))

----------------------------------------------------------------------------
(* The hasher as a state machine: Hasher::new, write, write_bytes,         *)
(* finalize, hash_bytes, called with inputs from small sets.               *)

\* "alice", "bob", "same input": strings of hash.rs's tests
alice == <<97, 108, 105, 99, 101>>
bob == <<98, 111, 98>>
same_input == <<115, 97, 109, 101, 32, 105, 110, 112, 117, 116>>
\* "abcdefgh" (8 bytes) and "abcdefghabcdefgh" (16 bytes)
abcdefgh == <<97, 98, 99, 100, 101, 102, 103, 104>>
abcdefgh_twice == abcdefgh \o abcdefgh
\* "a" and "a\0": different byte strings, equal after zero-padding
letter_a == <<97>>
letter_a_nul == <<97, 0>>
\* "krwcm2fw" and "cibnmeui"
krwcm2fw == <<107, 114, 119, 99, 109, 50, 102, 119>>
cibnmeui == <<99, 105, 98, 110, 109, 101, 117, 105>>

Fields ==
    {<<>>, alice, bob, same_input, abcdefgh, abcdefgh_twice, letter_a, letter_a_nul,
     krwcm2fw, cibnmeui}

\* 0 and 2^63
TopBit == <<0, 0, 0, 0, 0, 0, 0, 128>>
Chunks == {Zero64, TopBit}

\* the longest sequence of calls made on one hasher
MaxOps == 2

OpWrite(chunk) == [op |-> "write", arg |-> chunk]
OpWriteBytes(bytes) == [op |-> "write_bytes", arg |-> bytes]

ApplyOp(h, o) == IF o.op = "write" THEN write(h, o.arg) ELSE write_bytes(h, o.arg)

RECURSIVE ApplyOps(_, _, _)
ApplyOps(h, opseq, i) ==
    IF i > Len(opseq) THEN h ELSE ApplyOps(ApplyOp(h, opseq[i]), opseq, i + 1)

\* finalize of a fresh hasher fed the calls of opseq, in order
Run(opseq) == finalize(ApplyOps(Hasher_new, opseq, 1))

\* no entity constructor or handler has been called
InitApi == call = [fn |-> "none"] /\ ret = None

InitHasher ==
    /\ hasher = Hasher_new
    /\ ops = <<>>
    /\ out = None

New ==
    /\ out /= None
    /\ hasher' = Hasher_new
    /\ ops' = <<>>
    /\ out' = None
    /\ UNCHANGED <<target_endian, call, ret>>

Write ==
    \E chunk \in Chunks :
        /\ out = None
        /\ Len(ops) < MaxOps
        /\ hasher' = write(hasher, chunk)
        /\ ops' = Append(ops, OpWrite(chunk))
        /\ UNCHANGED <<target_endian, out, call, ret>>

WriteBytes ==
    \E bytes \in Fields :
        /\ out = None
        /\ Len(ops) < MaxOps
        /\ hasher' = write_bytes(hasher, bytes)
        /\ ops' = Append(ops, OpWriteBytes(bytes))
        /\ UNCHANGED <<target_endian, out, call, ret>>

\* finalize(self) consumes the hasher: no call is enabled on it afterwards
Finalize ==
    /\ out = None
    /\ out' = Some(finalize(hasher))
    /\ UNCHANGED <<target_endian, hasher, ops, call, ret>>

HashBytes ==
    \E bytes \in Fields :
        /\ out = None
        /\ ops = <<>>
        /\ hasher' = write_bytes(Hasher_new, bytes)
        /\ ops' = <<OpWriteBytes(bytes)>>
        /\ out' = Some(hash_bytes(bytes))
        /\ UNCHANGED <<target_endian, call, ret>>

SpecHasherInit == target_endian \in {"little", "big"} /\ InitHasher /\ InitApi
SpecHasherNext == New \/ Write \/ WriteBytes \/ Finalize \/ HashBytes
SpecHasher == SpecHasherInit /\ [][SpecHasherNext]_vars

----------------------------------------------------------------------------
(* The entity constructors and the handlers as a state machine: each       *)
(* action is one call, with arguments from small sets.                     *)

ProjectIds == {0, 7, -1}

PubVisitors ==
    [tz : {Europe_Zurich, <<>>, Mars_Phobos},
     lang : {en, <<>>},
     screen : {<<1920, 1080>>, <<0, 0>>, <<-1, -1080>>}]

Hosts ==
    {None, DomainHost(example_com), DomainHost(EXAMPLE_com), DomainHost(shop_example),
     Ipv4Host(ip_127_0_0_1)}

\* the longest query string, in pairs
MaxPairs == 2

QueryKeys == {"campaign", "content", "medium", "source", "term", "Campaign"}
QueryPairs == QueryKeys \X {str_x, str_y}
Queries == UNION {[1..k -> QueryPairs] : k \in 0..MaxPairs}

PageUrls == {Url(h, p, <<>>) : h \in Hosts, p \in {<<47>>, slash_p}}
UtmUrls == {Url(DomainHost(shop_example), slash_p, q) : q \in Queries}
Referrers == {None} \cup {Some(Url(h, slash_other, <<>>)) : h \in Hosts}
PageDomains == {example_com, EXAMPLE_com, shop_example}

\* request bodies of the handlers
BodySessions ==
    {session_42, session_abc, <<>>, session_minus_7, session_plus_5, session_i64_max,
     session_i64_max_plus_1}
BodyVisitors ==
    {[tz |-> Europe_Zurich, lang |-> en, screen |-> <<1920, 1080>>],
     [tz |-> <<>>, lang |-> <<>>, screen |-> <<0, 0>>]}
BodyPageUrls ==
    {Url(h, slash_p, q) :
        h \in Hosts,
        q \in {<<>>, <<<<"campaign", spring>>>>, <<<<"Campaign", str_x>>>>}}
BodyReferrers ==
    {None, Some(Url(DomainHost(EXAMPLE_com), slash_other, <<>>)),
     Some(Url(DomainHost(shop_example), slash_other, <<>>)),
     Some(Url(Ipv4Host(ip_127_0_0_1), slash_other, <<>>))}
BodyUserAgents == {"chrome_on_linux", "unknown"}
HandlerProjectIds == {7}

PubPage(url, referrer) == [url |-> url, referrer |-> referrer]
PubVisit(session, visitor, page) == [session |-> session, visitor |-> visitor, page |-> page]
PubExit(session, visitor, page, dur, dist) ==
    [session |-> session, visitor |-> visitor, page |-> page, dur |-> dur, dist |-> dist]
PubEvent(session, visitor, page, name, data) ==
    [session |-> session, visitor |-> visitor, page |-> page, name |-> name, data |-> data]

VisitorNew ==
    \E project_id \in ProjectIds, visitor \in PubVisitors, user_agent \in UserAgents :
        /\ call.fn = "none"
        /\ call' = [fn |-> "Visitor::new", project_id |-> project_id,
                    visitor |-> visitor, user_agent |-> user_agent]
        /\ ret' = Visitor_new(project_id, visitor, user_agent)
        /\ UNCHANGED <<target_endian, hasher, ops, out>>

PageNew ==
    \E project_id \in ProjectIds, url \in PageUrls :
        /\ call.fn = "none"
        /\ call' = [fn |-> "Page::new", project_id |-> project_id, url |-> url]
        /\ ret' = Page_new(project_id, url)
        /\ UNCHANGED <<target_endian, hasher, ops, out>>

UtmParamNew ==
    \E project_id \in ProjectIds, url \in UtmUrls :
        /\ call.fn = "none"
        /\ call' = [fn |-> "UtmParam::new", project_id |-> project_id, url |-> url]
        /\ ret' = UtmParam_new(project_id, url)
        /\ UNCHANGED <<target_endian, hasher, ops, out>>

ReferrerNew ==
    \E project_id \in ProjectIds, referrer \in Referrers, host \in PageDomains :
        /\ call.fn = "none"
        /\ call' = [fn |-> "Referrer::new", project_id |-> project_id,
                    referrer |-> referrer, host |-> host]
        /\ ret' = Referrer_new(project_id, referrer, host)
        /\ UNCHANGED <<target_endian, hasher, ops, out>>

HandleVisit ==
    \E project_id \in HandlerProjectIds, session \in BodySessions, visitor \in BodyVisitors,
       url \in BodyPageUrls, referrer \in BodyReferrers, user_agent \in BodyUserAgents :
        LET body == PubVisit(session, visitor, PubPage(url, referrer))
        IN  /\ call.fn = "none"
            /\ call' = [fn |-> "handle_visit", project_id |-> project_id, body |-> body,
                        user_agent |-> user_agent]
            /\ ret' = handle_visit(project_id, body, user_agent)
            /\ UNCHANGED <<target_endian, hasher, ops, out>>

HandleExit ==
    \E project_id \in HandlerProjectIds, session \in BodySessions, visitor \in BodyVisitors,
       url \in BodyPageUrls, referrer \in BodyReferrers, user_agent \in BodyUserAgents :
        LET body == PubExit(session, visitor, PubPage(url, referrer), 30, "0.5")
        IN  /\ call.fn = "none"
            /\ call' = [fn |-> "handle_exit", project_id |-> project_id, body |-> body,
                        user_agent |-> user_agent]
            /\ ret' = handle_exit(project_id, body, user_agent)
            /\ UNCHANGED <<target_endian, hasher, ops, out>>

HandleEvent ==
    \E project_id \in HandlerProjectIds, session \in BodySessions, visitor \in BodyVisitors,
       url \in BodyPageUrls, referrer \in BodyReferrers, user_agent \in BodyUserAgents :
        LET body == PubEvent(session, visitor, PubPage(url, referrer), "click", "null")
        IN  /\ call.fn = "none"
            /\ call' = [fn |-> "handle_event", project_id |-> project_id, body |-> body,
                        user_agent |-> user_agent]
            /\ ret' = handle_event(project_id, body, user_agent)
            /\ UNCHANGED <<target_endian, hasher, ops, out>>

\* the caller takes the result; the next call can be made
Return ==
    /\ call.fn /= "none"
    /\ call' = [fn |-> "none"]
    /\ ret' = None
    /\ UNCHANGED <<target_endian, hasher, ops, out>>

SpecApiInit == target_endian \in {"little", "big"} /\ InitHasher /\ InitApi
SpecApiNext ==
    \/ VisitorNew
    \/ PageNew
    \/ UtmParamNew
    \/ ReferrerNew
    \/ HandleVisit
    \/ HandleExit
    \/ HandleEvent
    \/ Return
SpecApi == SpecApiInit /\ [][SpecApiNext]_vars

----------------------------------------------------------------------------
(* Claims about the hasher (checked under SpecHasher) *)

NumCalls(n) == IF n = 0 THEN 1 ELSE (n + 7) \div 8

\* the j-th 8-byte chunk of bytes, zero-padded on the right
PaddedChunk(bytes, j) ==
    [i \in 1..8 |-> IF 8 * (j - 1) + i <= Len(bytes) THEN bytes[8 * (j - 1) + i] ELSE 0]
        \o <<>>

ExpectedCalls(bytes) ==
    [j \in 1..NumCalls(Len(bytes)) |-> from_ne_bytes(PaddedChunk(bytes, j))] \o <<>>

\* bytes zero-padded to a whole number (at least one) of 8-byte chunks
Padded(bytes) == resize(bytes, 8 * NumCalls(Len(bytes)), 0)

RECURSIVE CallsOf(_, _)
CallsOf(opseq, i) ==
    IF i > Len(opseq) THEN <<>>
    ELSE (IF opseq[i].op = "write" THEN <<opseq[i].arg>> ELSE ExpectedCalls(opseq[i].arg))
         \o CallsOf(opseq, i + 1)

\* C1: write_bytes on n bytes makes exactly max(1, ceil(n/8)) calls to write, the
\* consecutive 8-byte chunks in order, the last one zero-padded on the right; a
\* non-zero multiple of 8 bytes gets no extra all-zero chunk.
C1_WriteBytesChunks == hasher.calls = CallsOf(ops, 1)

C1_Witness ==
    /\ ops = <<OpWriteBytes(abcdefgh_twice)>>
    /\ Len(hasher.calls) = 2
    /\ hasher.calls[2] = from_ne_bytes(abcdefgh)

\* a finalized hasher that was fed exactly two fields
TwoFields ==
    /\ out /= None
    /\ Len(ops) = 2
    /\ ops[1].op = "write_bytes"
    /\ ops[2].op = "write_bytes"

\* C2 as claimed: two fields that differ after zero-padding never hash to the same
\* value in the two orders.
C2_OrderSensitive ==
    (TwoFields /\ Padded(ops[1].arg) /= Padded(ops[2].arg))
        => unwrap(out) /= Run(<<ops[2], ops[1]>>)

\* The same claim for fields of at most 8 bytes, where no chunk boundary is involved
\* (chunks x, y hash alike in both orders when rotl(x * C, 5) XOR x is the same for
\* both, as for "krwcm2fw" and "cibnmeui" on a little-endian target).
C2_OrderSensitiveOneChunk ==
    (TwoFields /\ Len(ops[1].arg) <= 8 /\ Len(ops[2].arg) <= 8
        /\ Padded(ops[1].arg) /= Padded(ops[2].arg))
        => unwrap(out) /= Run(<<ops[2], ops[1]>>)

\* C3 as claimed: after any sequence of calls on a fresh hasher, the empty one
\* included, one more write(0) changes what finalize returns.
C3_EmptyFieldDistinct ==
    out /= None => Run(Append(ops, OpWrite(Zero64))) /= unwrap(out)

\* C4 as claimed: two non-empty fields x, y never hash like the single field x || y.
C4_GroupingSensitive ==
    (TwoFields /\ ops[1].arg /= <<>> /\ ops[2].arg /= <<>>)
        => unwrap(out) /= hash_bytes(ops[1].arg \o ops[2].arg)

\* 2^58, the bit that rotate_left(5) moves to bit 63
Bit58 == <<0, 0, 0, 0, 0, 0, 0, 4>>

ChunkSamples == Chunks \cup {U64(1), from_ne_bytes(Padded(alice))}

StateSamples(s) == {Zero64, bitxor(s, U64(1)), bitxor(s, Bit58)}

RECURSIVE WriteAll(_, _, _)
WriteAll(h, chunks, i) ==
    IF i > Len(chunks) THEN h ELSE WriteAll(write(h, chunks[i]), chunks, i + 1)

----------------------------------------------------------------------------
(* Claims about the entity constructors and the handlers (checked under    *)
(* SpecApi)                                                                *)

\* the calls Visitor::new is claimed to make on its hasher
VisitorOps(project_id, visitor, user_agent) ==
    LET region == TIMEZONES_get(visitor.tz)
        ua == UA_PARSER_parse(user_agent)
    IN  <<OpWrite(as_u64(project_id))>>
        \o (IF is_some(region) THEN <<OpWriteBytes(unwrap(region))>> ELSE <<>>)
        \o <<OpWriteBytes(visitor.tz), OpWriteBytes(visitor.lang)>>
        \o (IF ua.user_agent.family /= <<>>
            THEN <<OpWriteBytes(ua.user_agent.family)>> ELSE <<>>)
        \o (IF ua.os.family /= <<>> THEN <<OpWriteBytes(ua.os.family)>> ELSE <<>>)
        \o <<OpWrite(as_u64(visitor.screen[1])), OpWrite(as_u64(visitor.screen[2]))>>

RECURSIVE AddFrom(_, _, _, _)
AddFrom(x, y, k, carry) ==
    IF k > 8 THEN <<>>
    ELSE LET t == x[k] + y[k] + carry
         IN  <<t % 256>> \o AddFrom(x, y, k + 1, t \div 256)

\* addition modulo 2^64
wrapping_add(x, y) == AddFrom(x, y, 1, 0)

\* chunk is v sign-extended to 64 bits: v itself, or 2^64 + v for a negative v
SignExtended(v, chunk) ==
    IF v >= 0 THEN chunk = U64(v)
    ELSE chunk /= Zero64 /\ wrapping_add(chunk, U64(-v)) = Zero64

\* C5: Visitor::new always returns a Visitor, whose id is the hash of write(project),
\* write_bytes(region) if the timezone resolves, write_bytes(timezone),
\* write_bytes(language), write_bytes(browser) / write_bytes(platform) if non-empty,
\* write(width), write(height); absent fields make no call and the screen
\* dimensions are sign-extended.
C5_VisitorIdentity ==
    call.fn = "Visitor::new"
        => LET opseq == VisitorOps(call.project_id, call.visitor, call.user_agent)
               n == Len(opseq)
           IN  /\ ret.id = Run(opseq)
               /\ ret.project = call.project_id
               /\ SignExtended(call.visitor.screen[1], opseq[n - 1].arg)
               /\ SignExtended(call.visitor.screen[2], opseq[n].arg)
               /\ n = 5 + (IF is_some(ret.region) THEN 1 ELSE 0)
                        + (IF is_some(ret.browser) THEN 1 ELSE 0)
                        + (IF is_some(ret.platform) THEN 1 ELSE 0)

C5_Witness ==
    /\ call.fn = "Visitor::new"
    /\ call.visitor = [tz |-> Europe_Zurich, lang |-> en, screen |-> <<-1, -1080>>]
    /\ call.user_agent = "unknown_on_linux"
    /\ ret.region = Some(CH)
    /\ ret.browser = None
    /\ ret.platform = Some(Linux)

RecognizedKeys == <<"campaign", "content", "medium", "source", "term">>

Occurrences(query, key) == {i \in 1..Len(query) : query[i][1] = key}

Last(S) == CHOOSE m \in S : \A n \in S : n <= m

\* the value of the last occurrence of key in the query, if there is one
LastValue(query, key) ==
    IF Occurrences(query, key) = {} THEN None
    ELSE Some(query[Last(Occurrences(query, key))][2])

UtmFields(u) == <<u.campaign, u.content, u.medium, u.source, u.term>>

RECURSIVE UtmFieldOps(_, _)
UtmFieldOps(query, k) ==
    IF k > Len(RecognizedKeys) THEN <<>>
    ELSE (IF is_some(LastValue(query, RecognizedKeys[k]))
          THEN <<OpWriteBytes(unwrap(LastValue(query, RecognizedKeys[k])))>>
          ELSE <<>>)
         \o UtmFieldOps(query, k + 1)

SameLastValues(q1, q2) ==
    \A k \in 1..Len(RecognizedKeys) :
        LastValue(q1, RecognizedKeys[k]) = LastValue(q2, RecognizedKeys[k])

\* C6: the UtmParam of a URL with a recognized key has, for each of campaign, content,
\* medium, source, term, the value of the key's last occurrence, and its id is the hash
\* of write(project) and write_bytes of the present fields in that fixed order;
\* permuting the query without changing the last values, or adding an unrecognized
\* key, changes neither the fields nor the id.
C6_UtmLastWinsFixedOrder ==
    (call.fn = "UtmParam::new" /\ ret /= None)
        => LET query == call.url.query
               u == unwrap(ret)
           IN  /\ UtmFields(u) = [k \in 1..5 |-> LastValue(query, RecognizedKeys[k])]
               /\ u.id = Run(<<OpWrite(as_u64(call.project_id))>> \o UtmFieldOps(query, 1))
               /\ \A pi \in Permutations(1..Len(query)) :
                    LET permuted == [i \in 1..Len(query) |-> query[pi[i]]] \o <<>>
                    IN  SameLastValues(permuted, query)
                            => UtmParam_new(call.project_id,
                                            [call.url EXCEPT !.query = permuted]) = ret
               /\ UtmParam_new(call.project_id,
                               [call.url EXCEPT !.query = <<<<"Campaign", str_y>>>> \o query])
                    = ret
               /\ UtmParam_new(call.project_id,
                               [call.url EXCEPT !.query = Append(query, <<"utm_term", str_x>>)])
                    = ret

C6_Witness ==
    /\ call.fn = "UtmParam::new"
    /\ call.url.query = <<<<"term", str_x>>, <<"campaign", str_y>>>>
    /\ ret /= None
    /\ unwrap(ret).campaign = Some(str_y)
    /\ unwrap(ret).term = Some(str_x)

\* the positions of the query's recognized keys
Recognized(query) ==
    {i \in 1..Len(query) : \E k \in 1..Len(RecognizedKeys) : query[i][1] = RecognizedKeys[k]}

\* C7: UtmParam::new returns None exactly when the query has none of the five keys
\* (case-sensitive); a UtmParam it returns has a field present; when the only
\* recognized parameter is campaign=x the id is the hash of write(project),
\* write_bytes(x); the Visit of handle_visit / handle_exit carries that result.
C7_UtmPresence ==
    /\ call.fn = "UtmParam::new"
        => LET query == call.url.query
           IN  /\ (ret = None) <=> (Recognized(query) = {})
               /\ ret /= None => \E k \in 1..5 : is_some(UtmFields(unwrap(ret))[k])
               /\ \A i \in 1..Len(query) :
                    (Recognized(query) = {i} /\ query[i][1] = "campaign")
                        => /\ ret /= None
                           /\ unwrap(ret).id
                                = Run(<<OpWrite(as_u64(call.project_id)),
                                        OpWriteBytes(query[i][2])>>)
    /\ (call.fn \in {"handle_visit", "handle_exit"} /\ ret.ok)
        => LET utm == ret.val.utm_param
           IN  /\ (utm = None) <=> (Recognized(call.body.page.url.query) = {})
               /\ utm /= None => \E k \in 1..5 : is_some(UtmFields(unwrap(utm))[k])

C7_Witness ==
    /\ call.fn = "UtmParam::new"
    /\ call.url.query = <<<<"Campaign", str_y>>, <<"campaign", str_x>>>>
    /\ ret /= None
    /\ UtmFields(unwrap(ret)) = <<Some(str_x), None, None, None, None>>

FoldCase(b) == IF b >= 97 /\ b <= 122 THEN b - 32 ELSE b

SameIgnoringCase(a, b) ==
    Len(a) = Len(b) /\ \A i \in 1..Len(a) : FoldCase(a[i]) = FoldCase(b[i])

HasUpperCase(str) == \E i \in 1..Len(str) : str[i] >= 65 /\ str[i] <= 90

\* whether no Referrer is claimed for this referrer and page domain
NoReferrer(referrer, host) ==
    \/ referrer = None
    \/ Url_domain(unwrap(referrer)) = None
    \/ SameIgnoringCase(unwrap(Url_domain(unwrap(referrer))), host)

\* C8: Referrer::new returns None exactly when there is no referrer URL, it has no
\* domain, or its domain equals the page's domain ignoring case; otherwise the
\* Referrer's domain is the referrer's domain lower-cased and its id the hash of
\* write(project), write_bytes(that domain); the Visit of handle_visit / handle_exit
\* carries that result for the page's own domain.
C8_ReferrerPresence ==
    /\ call.fn = "Referrer::new"
        => /\ (ret = None) <=> NoReferrer(call.referrer, call.host)
           /\ ret /= None
                => LET r == unwrap(ret)
                       domain == unwrap(Url_domain(unwrap(call.referrer)))
                   IN  /\ SameIgnoringCase(r.domain, domain)
                       /\ ~HasUpperCase(r.domain)
                       /\ r.project = call.project_id
                       /\ r.id = Run(<<OpWrite(as_u64(call.project_id)),
                                       OpWriteBytes(r.domain)>>)
    /\ (call.fn \in {"handle_visit", "handle_exit"} /\ ret.ok)
        => /\ (ret.val.referrer = None)
                <=> NoReferrer(call.body.page.referrer,
                               unwrap(Url_domain(call.body.page.url)))
           /\ ret.val.referrer /= None => ~HasUpperCase(unwrap(ret.val.referrer).domain)

C8_Witness ==
    /\ call.fn = "Referrer::new"
    /\ call.referrer = Some(Url(DomainHost(EXAMPLE_com), slash_other, <<>>))
    /\ call.host = shop_example
    /\ ret /= None
    /\ unwrap(ret).domain = example_com

IsHandlerCall == call.fn \in {"handle_visit", "handle_exit", "handle_event"}

\* whether str is a decimal integer, optionally signed, that fits an i64
ValidI64(str) ==
    LET digits == IF str /= <<>> /\ str[1] \in {43, 45} THEN Tail(str) ELSE str
    IN  /\ digits /= <<>>
        /\ \A i \in 1..Len(digits) : IsDigit(digits[i])
        /\ ~OverflowsI64(str[1] = 45, StripZeros(digits))

\* what the handlers are claimed to return when failing is decided by `bad_page`
HandlerOutcome(bad_page) ==
    LET bad_session == ~ValidI64(call.body.session)
    IN  /\ ~ret.ok <=> (bad_session \/ bad_page)
        /\ bad_session => (~ret.ok /\ ret.err.kind = "ParseIntError")
        /\ (~bad_session /\ bad_page) => (~ret.ok /\ ret.err = Error_Missing("domain"))
        /\ (~bad_session /\ ~bad_page)
            => (ret.ok /\ ret.val.project = call.project_id
                /\ ret.val.page.domain = unwrap(Url_domain(call.body.page.url)))

\* C9 as claimed: a handler fails exactly when the session is not a valid integer or
\* the page URL has no host component.
C9_ErrorIffBadSessionOrNoHost ==
    IsHandlerCall => HandlerOutcome(call.body.page.url.host = None)

\* C9 as amended: a handler fails exactly when the session does not parse as an i64
\* or the page URL has no domain, that is no host or a host that is an IP address;
\* the session is checked first (ParseIntError), then the page (Missing("domain")).
C9_ErrorIffBadSessionOrNoDomain ==
    IsHandlerCall => HandlerOutcome(Url_domain(call.body.page.url) = None)

C9_Witness ==
    /\ call.fn = "handle_event"
    /\ call.body.session = session_abc
    /\ call.body.page.url.host = None
    /\ ~ret.ok
    /\ ret.err.kind = "ParseIntError"

====
